---- MODULE Spec2Model ----
(***************************************************************************)
(* A model of the streaming ZIP codec of rs-async-zip:                     *)
(*   - the entry stream writer (src/write/entry_stream.rs), which writes   *)
(*     one entry of unknown size into the parent writer's sink and appends *)
(*     a central directory record when it is closed;                       *)
(*   - the stream reader (src/stream/read/mod.rs), which parses entries    *)
(*     one after another from a forward-only byte source.                  *)
(*                                                                         *)
(* Bytes are the integers 0..255 and the sink and the source are byte      *)
(* sequences.  A 16-bit field is a natural number.  A 32-bit field is      *)
(* represented by its four little-endian bytes (the wire form), so that    *)
(* every bit pattern a corrupt stream can hold is representable; a         *)
(* checksum accumulator is a pair <<high 16 bits, low 16 bits>>.           *)
(***************************************************************************)
EXTENDS Integers, Sequences, FiniteSets, TLC

VARIABLES
    mode,        \* "write": the writer side runs; "read": the reader side runs
    sink,        \* bytes the parent ZipFileWriter has written to its sink
    cd_entries,  \* the parent ZipFileWriter's central directory record list
    ws,          \* per entry writer: "Unborn", "OpenFailed", "Open", "Closed", "Dropped"
    w,           \* fields of the entry writer that is (or was last) alive, with
                 \* the bytes its writes accepted and the number of writes
                 \* that accepted any
    wop,         \* the last writer operation and its outcome
    src,         \* the reader's byte source
    pos,         \* number of source bytes consumed so far
    arch,        \* how the source was built (the entries it was assembled from)
    h,           \* the ZipStreamFile handed out by the last next_entry(), or NoHandle
    rop,         \* the last reader operation and its outcome
    broken       \* the sink has failed: the caller gives the archive up

vars == <<mode, sink, cd_entries, ws, w, wop, src, pos, arch, h, rop, broken>>
wvars == <<sink, cd_entries, ws, w, wop, broken>>
rvars == <<src, pos, arch, h, rop>>

---------------------------------------------------------------------------
(* Bounds of the model *)

\* entry writers opened in one run
MaxEntries == 2
\* payload bytes one entry writer accepts
MaxPayload == 2
\* longest short read of the source
MaxShort == 1
\* entries of a hand-assembled archive
MaxArchive == 2

---------------------------------------------------------------------------
(* Little-endian integers *)

Min(a, b) == IF a < b THEN a ELSE b

Range(s) == {s[i] : i \in 1..Len(s)}

\* the bytes of s from 0-based offset `from`, at most n of them
Slice(s, from, n) == SubSeq(s, from + 1, Min(Len(s), from + n))

\* u16::to_le_bytes
LE16(n) == <<n % 256, (n \div 256) % 256>>

\* u32::to_le_bytes, for the values below 2^31 the model computes
LE32(n) == <<n % 256, (n \div 256) % 256, (n \div 65536) % 256, (n \div 16777216) % 256>>

\* u16::from_le_bytes of the two bytes at 0-based offset i
U16At(b, i) == b[i + 1] + 256 * b[i + 2]

\* min(v, n) for a 32-bit value v given by its bytes and a natural n < 65536
U32Min(v, n) ==
    IF v[3] = 0 /\ v[4] = 0 /\ v[1] + 256 * v[2] < n THEN v[1] + 256 * v[2] ELSE n

\* the magic numbers of crate::spec::delimiter, as written by to_le_bytes
LFHD == <<80, 75, 3, 4>>
CDFHD == <<80, 75, 1, 2>>
DDD == <<80, 75, 7, 8>>

---------------------------------------------------------------------------
(* CRC32 (crc32fast::Hasher), bit by bit on the reflected polynomial       *)
(* 0xEDB88320, the accumulator held as <<high half, low half>>.            *)

RECURSIVE Xor(_, _)
Xor(a, b) ==
    IF a = 0 THEN b
    ELSE IF b = 0 THEN a
    ELSE ((a + b) % 2) + 2 * Xor(a \div 2, b \div 2)

CrcShift(c) ==
    LET s == <<c[1] \div 2, (c[2] \div 2) + 32768 * (c[1] % 2)>>
    IN  IF c[2] % 2 = 1 THEN <<Xor(s[1], 60856), Xor(s[2], 33568)>> ELSE s

CrcByte(c, b) ==
    CrcShift(CrcShift(CrcShift(CrcShift(
    CrcShift(CrcShift(CrcShift(CrcShift(<<c[1], Xor(c[2], b)>>))))))))

\* Hasher::new()
HasherNew == <<65535, 65535>>

\* Hasher::update
RECURSIVE HasherUpdate(_, _)
HasherUpdate(c, bytes) ==
    IF bytes = <<>> THEN c
    ELSE HasherUpdate(CrcByte(c, Head(bytes)), Tail(bytes))

\* Hasher::finalize followed by u32::to_le_bytes
HasherFinalize(c) ==
    LET hi == 65535 - c[1]
        lo == 65535 - c[2]
    IN  <<lo % 256, lo \div 256, hi % 256, hi \div 256>>

\* the CRC32 of a whole byte string
Crc32(bytes) == HasherFinalize(HasherUpdate(HasherNew, bytes))

---------------------------------------------------------------------------
(* The wire layout of the 26-byte local file header                        *)
(* (crate::spec::header::LocalFileHeader, spec section 6):                 *)
(* version(2) flags(2) compression(2) mod_time(2) mod_date(2) crc(4)       *)
(* compressed_size(4) uncompressed_size(4) file_name_length(2)             *)
(* extra_field_length(2).  Flag bit 0 is `encrypted`, bit 3 is             *)
(* `data_descriptor`.                                                      *)

FlagBits(flags) ==
    (IF flags.encrypted THEN 1 ELSE 0) + (IF flags.data_descriptor THEN 8 ELSE 0)

\* LocalFileHeader::to_slice
LfhToSlice(l) ==
    LE16(l.version) \o LE16(FlagBits(l.flags)) \o LE16(l.compression)
    \o LE16(l.mod_time) \o LE16(l.mod_date) \o l.crc
    \o l.compressed_size \o l.uncompressed_size
    \o LE16(l.file_name_length) \o LE16(l.extra_field_length)

\* LocalFileHeader::from([u8; 26])
LfhFrom(b) ==
    [version            |-> U16At(b, 0),
     flags              |-> [encrypted       |-> (b[3] % 2) = 1,
                             data_descriptor |-> ((b[3] \div 8) % 2) = 1],
     compression        |-> U16At(b, 4),
     mod_time           |-> U16At(b, 6),
     mod_date           |-> U16At(b, 8),
     crc                |-> SubSeq(b, 11, 14),
     compressed_size    |-> SubSeq(b, 15, 18),
     uncompressed_size  |-> SubSeq(b, 19, 22),
     file_name_length   |-> U16At(b, 22),
     extra_field_length |-> U16At(b, 24)]

---------------------------------------------------------------------------
(* The byte sink and the encoder between the entry writer and the sink     *)

RECURSIVE Concat(_)
Concat(parts) == IF parts = <<>> THEN <<>> ELSE Head(parts) \o Concat(Tail(parts))

\* What a run of write_all calls leaves in the sink: every part when no call
\* fails (f = 0); otherwise the parts before part f and the first k bytes of
\* part f, the call that failed.
Written(parts, f, k) ==
    IF f = 0 THEN Concat(parts)
    ELSE Concat(SubSeq(parts, 1, f - 1)) \o SubSeq(parts[f], 1, k)

\* The prefixes a failing write_all of part f can leave (a write_all of an
\* empty buffer never touches the sink and cannot fail).
FailPrefix(parts, f) ==
    IF f = 0 THEN {0} ELSE {k \in 0..1 : k < Len(parts[f])}

\* The terminator the encoders of the compressing methods emit when finished.
EndOfStream == <<0>>

\* CompressedAsyncWriter::poll_write: the bytes that reach the sink when the
\* encoder accepts `bytes`.  Stored forwards them; a compressing encoder holds
\* them until it is flushed or finished.
EncEmit(compression, bytes) == IF compression = 0 THEN bytes ELSE <<>>

\* the encoder's buffer after it accepted `bytes`
EncHold(compression, encbuf, bytes) == IF compression = 0 THEN <<>> ELSE encbuf \o bytes

\* CompressedAsyncWriter::poll_shutdown: the bytes finishing the encoder emits
EncFinish(compression, encbuf) ==
    IF compression = 0 THEN <<>> ELSE encbuf \o EndOfStream

---------------------------------------------------------------------------
(* The entry stream writer *)

\* The payload a caller streams into an entry: it hands the bytes not yet
\* accepted to the next write call, any number of them at a time.
Payload == [i \in 1..MaxPayload |-> i]

\* the buffers a caller hands to a write call once `accepted` bytes are in
Bufs(accepted) ==
    {SubSeq(Payload, accepted + 1, accepted + n) : n \in 1..(MaxPayload - accepted)}

\* the packed (mod_time, mod_date) pairs chrono_to_zip_time(Utc::now()) returns
\* in the runs modelled: 2021-06-15 12:30:10
Clock == {<<12 * 2048 + 30 * 32 + 5, 41 * 512 + 6 * 32 + 15>>}

\* the EntryOptions callers pass
OptionSet ==
    {[filename |-> <<97>>, extra |-> <<>>, comment |-> <<>>, compression |-> 0],
     [filename |-> <<98, 99>>, extra |-> <<5, 6>>, comment |-> <<33>>, compression |-> 8]}

\* extra data of 65536 bytes, one more than a 16-bit length can say
LongExtra == [i \in 1..65536 |-> 7]

\* the EntryOptions of callers that also pass extra data of that length
LongOptionSet ==
    OptionSet
    \cup {[filename |-> <<100>>, extra |-> LongExtra, comment |-> <<>>, compression |-> 0]}

NoWriter ==
    [id |-> 0, options |-> [filename |-> <<>>, extra |-> <<>>, comment |-> <<>>, compression |-> 0],
     hasher |-> HasherNew, lfh_offset |-> 0, data_offset |-> 0, offset |-> 0,
     encbuf |-> <<>>, accepted |-> <<>>, chunks |-> 0, mod_time |-> 0, mod_date |-> 0]

\* kind: the operation; id: the entry writer; res: its outcome; len: the
\* length of the buffer a write was handed; n: the bytes the write accepted
NoOp == [kind |-> "none", id |-> 0, res |-> "none", len |-> 0, n |-> 0]

\* write_lfh: the header value
WriteLfh(options, clock) ==
    [compressed_size    |-> LE32(0),
     uncompressed_size  |-> LE32(0),
     compression        |-> options.compression,
     crc                |-> LE32(0),
     extra_field_length |-> Len(options.extra) % 65536,
     file_name_length   |-> Len(options.filename) % 65536,
     mod_time           |-> clock[1],
     mod_date           |-> clock[2],
     version            |-> 0,
     flags              |-> [data_descriptor |-> TRUE, encrypted |-> FALSE]]

\* LfhParts, had the extra field been written before the filename.
LfhPartsExtraFirst(lfh, options) == <<LFHD, LfhToSlice(lfh), options.extra, options.filename>>

\* write_lfh: the four write_all calls
LfhParts(lfh, options) == <<LFHD, LfhToSlice(lfh), options.filename, options.extra>>

\* the header the writer keeps in self.lfh
LfhOf(wr) == WriteLfh(wr.options, <<wr.mod_time, wr.mod_date>>)

\* Borrowing the parent writer mutably: an entry writer can be made only when
\* no earlier one is alive.
CanOpen(i) ==
    /\ ws[i] = "Unborn"
    /\ \A j \in 1..(i - 1) : ws[j] \in {"OpenFailed", "Closed", "Dropped"}

\* from_raw, with the options drawn from `optionset`
FromRawWith(optionset) ==
    /\ mode = "write" /\ ~broken
    /\ \E i \in 1..MaxEntries, options \in optionset, clock \in Clock, f \in 0..4 :
        LET lfh == WriteLfh(options, clock)
            parts == LfhParts(lfh, options)
        IN  /\ CanOpen(i)
            /\ \E k \in FailPrefix(parts, f) :
                /\ sink' = sink \o Written(parts, f, k)
                /\ IF f = 0
                   THEN /\ ws' = [ws EXCEPT ![i] = "Open"]
                        /\ w' = [id |-> i, options |-> options, hasher |-> HasherNew,
                                 lfh_offset |-> Len(sink), data_offset |-> Len(sink'),
                                 offset |-> 0, encbuf |-> <<>>, accepted |-> <<>>,
                                 chunks |-> 0, mod_time |-> lfh.mod_time, mod_date |-> lfh.mod_date]
                        /\ wop' = [kind |-> "open", id |-> i, res |-> "ok", len |-> 0, n |-> 0]
                        /\ broken' = FALSE
                   ELSE /\ ws' = [ws EXCEPT ![i] = "OpenFailed"]
                        /\ w' = w
                        /\ wop' = [kind |-> "open", id |-> i, res |-> "err", len |-> 0, n |-> 0]
                        /\ broken' = TRUE
    /\ UNCHANGED <<mode, cd_entries, rvars>>

\* Hashed, had the hasher been fed the buffer the caller handed over.
HashedWhole(buf, written) == buf

FromRaw == FromRawWith(OptionSet)

\* from_raw called with extra data of 65536 bytes as well
FromRawLong == FromRawWith(LongOptionSet)

\* poll_write, line 126: the bytes fed to the hasher
Hashed(buf, written) == SubSeq(buf, 1, written)

\* Owned, had close taken the writer by reference instead of by value: a
\* closed writer could be used again.
OwnedBorrowed(i) == ws[i] \in {"Open", "Closed"} /\ w.id = i

\* An entry writer can be written to and closed while it is owned, that is
\* after from_raw returned it and before close(self) or a drop consumed it.
Owned(i) == ws[i] = "Open" /\ w.id = i

\* poll_write returning Ready(Ok(written))
PollWriteOk ==
    /\ mode = "write" /\ ~broken
    /\ \E i \in 1..MaxEntries, buf \in Bufs(Len(w.accepted)) :
        \E written \in 0..Len(buf) :
            LET bytes == SubSeq(buf, 1, written)
            IN  /\ Owned(i)
                /\ sink' = sink \o EncEmit(w.options.compression, bytes)
                /\ w' = [w EXCEPT !.offset = @ + written,
                                  !.encbuf = EncHold(w.options.compression, @, bytes),
                                  !.hasher = HasherUpdate(@, Hashed(buf, written)),
                                  !.accepted = @ \o bytes,
                                  !.chunks = @ + (IF written > 0 THEN 1 ELSE 0)]
                /\ wop' = [kind |-> "write", id |-> i, res |-> "ok",
                           len |-> Len(buf), n |-> written]
    /\ UNCHANGED <<mode, cd_entries, ws, broken, rvars>>

\* poll_write returning Pending or Ready(Err): nothing is accepted
PollWriteNot ==
    /\ mode = "write" /\ ~broken
    /\ \E i \in 1..MaxEntries, res \in {"pending", "err"}, buf \in Bufs(Len(w.accepted)) :
        /\ Owned(i)
        /\ broken' = (res = "err")
        /\ wop' = [kind |-> "write", id |-> i, res |-> res, len |-> Len(buf), n |-> 0]
    /\ UNCHANGED <<mode, sink, cd_entries, ws, w, rvars>>

\* poll_flush: the encoder hands what it holds to the sink
PollFlush ==
    /\ mode = "write" /\ ~broken
    /\ \E i \in 1..MaxEntries :
        /\ Owned(i)
        /\ sink' = sink \o w.encbuf
        /\ w' = [w EXCEPT !.encbuf = <<>>]
        /\ wop' = [kind |-> "flush", id |-> i, res |-> "ok", len |-> 0, n |-> 0]
    /\ UNCHANGED <<mode, cd_entries, ws, broken, rvars>>

\* UncompressedSize, had the offset decorator counted the write calls that
\* forwarded bytes instead of the bytes.
UncompressedSizeCalls(wr) == LE32(wr.chunks)

\* close, line 88: self.writer.offset() as u32, the bytes the writes forwarded
\* to the encoder
UncompressedSize(wr) == LE32(wr.offset)

\* CompressedSize, had the sink's offset been read after the descriptor was
\* written.
CompressedSizeWithDescriptor(offset, data_offset) == LE32((offset + 16) - data_offset)

\* close, line 90: (inner_writer.offset() - self.data_offset) as u32
CompressedSize(offset, data_offset) == LE32(offset - data_offset)

\* LhOffset, had the record taken the offset of the payload.
LhOffsetOfData(wr) == LE32(wr.data_offset)

\* close, line 113: self.lfh_offset as u32
LhOffset(wr) == LE32(wr.lfh_offset)

\* close, lines 97-114: the central directory header
Cdh(wr, crc, compressed_size, uncompressed_size) ==
    [compressed_size     |-> compressed_size,
     uncompressed_size   |-> uncompressed_size,
     crc                 |-> crc,
     v_made_by           |-> 0,
     v_needed            |-> 0,
     compression         |-> LfhOf(wr).compression,
     extra_field_length  |-> LfhOf(wr).extra_field_length,
     file_name_length    |-> LfhOf(wr).file_name_length,
     file_comment_length |-> Len(wr.options.comment) % 65536,
     mod_time            |-> LfhOf(wr).mod_time,
     mod_date            |-> LfhOf(wr).mod_date,
     flags               |-> LfhOf(wr).flags,
     disk_start          |-> 0,
     inter_attr          |-> 0,
     exter_attr          |-> 0,
     lh_offset           |-> LhOffset(wr)]

\* Pushed, had the record been pushed before the descriptor is written: a
\* close that fails would leave it in the list.
PushedEarly(list, entry, ok) == Append(list, entry)

\* close, line 116: the record list after a close that ran to its end (ok) or
\* returned early with an error
Pushed(list, entry, ok) == IF ok THEN Append(list, entry) ELSE list

\* close(self).  f = 0: every step succeeds; f = 1: shutdown fails;
\* f = 2..5: the write_all of the descriptor's marker, checksum, compressed
\* size, uncompressed size fails.
Close ==
    /\ mode = "write" /\ ~broken
    /\ \E i \in 1..MaxEntries, f \in 0..5 :
        LET fin == EncFinish(w.options.compression, w.encbuf)
            shut == IF f = 1 THEN <<>> ELSE fin
            crc == HasherFinalize(w.hasher)
            uncompressed_size == UncompressedSize(w)
            compressed_size == CompressedSize(Len(sink) + Len(shut), w.data_offset)
            parts == <<DDD, crc, compressed_size, uncompressed_size>>
            cdh == Cdh(w, crc, compressed_size, uncompressed_size)
        IN  /\ Owned(i)
            /\ IF f = 1
               THEN \E k \in 0..1 :
                        /\ k = 0 \/ k < Len(fin)
                        /\ sink' = sink \o SubSeq(fin, 1, k)
               ELSE \E k \in FailPrefix(parts, IF f = 0 THEN 0 ELSE f - 1) :
                        sink' = sink \o shut \o Written(parts, IF f = 0 THEN 0 ELSE f - 1, k)
            /\ cd_entries' = Pushed(cd_entries, [header |-> cdh, opts |-> w.options], f = 0)
            /\ ws' = [ws EXCEPT ![i] = "Closed"]
            /\ w' = [w EXCEPT !.encbuf = <<>>]
            /\ wop' = [kind |-> "close", id |-> i, res |-> IF f = 0 THEN "ok" ELSE "err",
                       len |-> 0, n |-> 0]
            /\ broken' = (f # 0)
    /\ UNCHANGED <<mode, rvars>>

\* The entry writer goes out of scope without close(): EntryStreamWriter has no
\* Drop implementation, so its fields are released and nothing is written or
\* reported.
DropOpen ==
    /\ mode = "write" /\ ~broken
    /\ \E i \in 1..MaxEntries :
        /\ Owned(i)
        /\ ws' = [ws EXCEPT ![i] = "Dropped"]
        /\ wop' = [kind |-> "drop", id |-> i, res |-> "silent", len |-> 0, n |-> 0]
    /\ UNCHANGED <<mode, sink, cd_entries, w, broken, rvars>>

---------------------------------------------------------------------------
(* The byte source of the reader *)

\* The byte counts one read of up to `want` bytes can return when `avail`
\* bytes are left: all that was asked for and is there, or fewer (a short
\* read); 0 only at the end of the source or for an empty buffer.
ReadSizes(want, avail) ==
    {Min(want, avail)} \cup {k \in 1..MaxShort : k < Min(want, avail)}

\* std::str::from_utf8 accepts the bytes
RECURSIVE Utf8(_)
Utf8(b) ==
    LET n == Len(b)
        Cont(i) == i <= n /\ b[i] >= 128 /\ b[i] <= 191
    IN  IF n = 0 THEN TRUE
        ELSE IF b[1] < 128 THEN Utf8(Tail(b))
        ELSE IF b[1] >= 194 /\ b[1] <= 223
             THEN Cont(2) /\ Utf8(SubSeq(b, 3, n))
        ELSE IF b[1] >= 224 /\ b[1] <= 239
             THEN /\ Cont(2) /\ Cont(3)
                  /\ b[1] = 224 => b[2] >= 160
                  /\ b[1] = 237 => b[2] <= 159
                  /\ Utf8(SubSeq(b, 4, n))
        ELSE IF b[1] >= 240 /\ b[1] <= 244
             THEN /\ Cont(2) /\ Cont(3) /\ Cont(4)
                  /\ b[1] = 240 => b[2] >= 144
                  /\ b[1] = 244 => b[2] <= 143
                  /\ Utf8(SubSeq(b, 5, n))
        ELSE FALSE

---------------------------------------------------------------------------
(* Packed date and time *)

\* chrono_to_zip_time (crate::spec::date): the packed <<time, date>> of a
\* calendar timestamp, 5-bit hour, 6-bit minute, 5-bit second / 2 and 7-bit
\* year from 1980, 4-bit month, 5-bit day
ChronoToZipTime(t) ==
    <<t.hours * 2048 + t.mins * 32 + (t.secs \div 2),
      (t.years - 1980) * 512 + t.months * 32 + t.days>>

\* zip_date_to_chrono: the fields handed to Utc.ymd(..).and_hms(..)
ZipDateToChrono(date, time) ==
    [years  |-> ((date \div 512) % 128) + 1980,
     months |-> (date \div 32) % 16,
     days   |-> date % 32,
     hours  |-> (time % 32) \div 2048,
     mins   |-> (time \div 32) % 64,
     secs   |-> (time % 32) * 2]

DaysIn(y, m) ==
    IF m \in {4, 6, 9, 11} THEN 30
    ELSE IF m = 2
         THEN (IF y % 4 = 0 /\ (y % 100 # 0 \/ y % 400 = 0) THEN 29 ELSE 28)
    ELSE 31

\* Utc.ymd(..).and_hms(..) returns instead of panicking
ChronoValid(t) ==
    /\ t.months \in 1..12
    /\ t.days \in 1..DaysIn(t.years, t.months)
    /\ t.hours < 24 /\ t.mins < 60 /\ t.secs < 60

---------------------------------------------------------------------------
(* The stream reader *)

NoHandle ==
    [alive |-> FALSE, file_name |-> <<>>, compressed_size |-> LE32(0),
     uncompressed_size |-> LE32(0), crc |-> LE32(0),
     extra |-> [len |-> 0, data |-> <<>>],
     last_modified |-> ZipDateToChrono(0, 0), bytes_read |-> 0,
     reader |-> "none", taken |-> 0, done |-> FALSE, start |-> 0, data |-> <<>>]

\* kind: the operation; res: what it returned; val: the value an error of
\* next_entry() carries, or whether a read of consume() failed; from: the
\* source offset when it was called; eof: is_eof() when it was called; n: the
\* bytes it delivered; calls: next_entry() calls so far; alt: the calls so far were
\* next_entry(), consume(), next_entry(), consume(), ...
NoRead ==
    [kind |-> "none", res |-> "none", val |-> <<>>, from |-> 0, eof |-> FALSE,
     n |-> 0, calls |-> 0, alt |-> TRUE]

\* next_entry, lines 200-207: the decoder of a method code
Decoder(compression) ==
    CASE compression = 0 -> "Stored"
      [] compression = 8 -> "Deflate"
      [] compression = 12 -> "Bz"
      [] compression = 14 -> "Lzma"
      [] compression = 93 -> "Zstd"
      [] compression = 95 -> "Xz"
      [] OTHER -> "unsupported"

\* Marker, had the error carried the marker that was expected instead of the
\* value that was read.
MarkerExpected(value) ==
    IF value = LFHD THEN [res |-> "header", val |-> <<>>]
    ELSE IF value = CDFHD THEN [res |-> "None", val |-> <<>>]
    ELSE [res |-> "LocalFileHeaderError", val |-> LFHD]

\* next_entry, lines 179-183: what the marker decides
Marker(value) ==
    IF value = LFHD THEN [res |-> "header", val |-> <<>>]
    ELSE IF value = CDFHD THEN [res |-> "None", val |-> <<>>]
    ELSE [res |-> "LocalFileHeaderError", val |-> value]

\* Flags, without the check of data_descriptor.
FlagsEncryptedOnly(flags) ==
    IF flags.encrypted THEN [res |-> "FeatureNotSupported", val |-> "file encryption"]
    ELSE [res |-> "ok", val |-> ""]

\* next_entry, lines 187-194: what the flags decide
Flags(flags) ==
    IF flags.encrypted THEN [res |-> "FeatureNotSupported", val |-> "file encryption"]
    ELSE IF flags.data_descriptor
         THEN [res |-> "FeatureNotSupported", val |-> "file data descriptors"]
    ELSE [res |-> "ok", val |-> ""]

\* next_entry returns: the outcome, the source position and the handle
Returns(res, val, p, handle) ==
    /\ rop' = [kind |-> "next_entry", res |-> res, val |-> val, from |-> pos,
               eof |-> FALSE, n |-> 0, calls |-> rop.calls + 1,
               alt |-> rop.alt /\ rop.kind \in {"none", "consume"}]
    /\ pos' = p
    /\ h' = handle

\* next_entry from the header on: p1 is the offset after the marker
AfterMarker(p1) ==
    \E n \in ReadSizes(26, Len(src) - p1) :
        IF n # 26 THEN Returns("ReadFailed", <<>>, p1 + n, NoHandle)
        ELSE
        LET header == LfhFrom(Slice(src, p1, 26))
            p2 == p1 + 26
            flagged == Flags(header.flags)
            file_name == Slice(src, p2, header.file_name_length)
            p3 == p2 + Len(file_name)
        IN  IF flagged.res # "ok" THEN Returns(flagged.res, flagged.val, p2, NoHandle)
            ELSE IF ~Utf8(file_name) THEN Returns("ReadFailed", <<>>, p3, NoHandle)
            ELSE
            \E m \in ReadSizes(header.extra_field_length, Len(src) - p3) :
                LET extra == [len |-> header.extra_field_length, data |-> Slice(src, p3, m)]
                    p4 == p3 + m
                    last_modified == ZipDateToChrono(header.mod_date, header.mod_time)
                IN  IF Decoder(header.compression) = "unsupported"
                    THEN Returns("UnsupportedCompressionError", header.compression, p4, NoHandle)
                    ELSE IF ~ChronoValid(last_modified)
                    THEN Returns("panic", <<>>, p4, NoHandle)
                    ELSE Returns("Entry", <<>>, p4,
                                 [alive |-> TRUE, file_name |-> file_name,
                                  compressed_size |-> header.compressed_size,
                                  uncompressed_size |-> header.uncompressed_size,
                                  crc |-> header.crc, extra |-> extra,
                                  last_modified |-> last_modified, bytes_read |-> 0,
                                  reader |-> Decoder(header.compression),
                                  taken |-> 0, done |-> FALSE, start |-> p4, data |-> <<>>])

\* The caller iterates as the example of next_entry does (lines 166-176):
\* it stops at the first error and at "no entry".
Stopped == rop.kind = "next_entry" /\ rop.res # "Entry"

\* next_entry.  A handle still alive borrows the reader, so it is dropped
\* before the call.
NextEntry ==
    /\ mode = "read"
    /\ ~Stopped
    /\ IF Len(src) - pos < 4
       THEN Returns("ReadFailed", <<>>, Len(src), NoHandle)
       ELSE LET marked == Marker(Slice(src, pos, 4))
            IN  IF marked.res = "header" THEN AfterMarker(pos + 4)
                ELSE Returns(marked.res, marked.val, pos + 4, NoHandle)
    /\ UNCHANGED <<mode, src, arch, wvars>>

\* IsEof, had it compared with the compressed size.
IsEofCompressed(hd) == hd.compressed_size = LE32(hd.bytes_read)

\* is_eof
IsEof(hd) == hd.uncompressed_size = LE32(hd.bytes_read)

\* Take::poll_read: the bytes the bounded sub-reader can still hand out at
\* source offset p
TakeLeft(hd, p) ==
    U32Min(hd.compressed_size, hd.taken + (Len(src) - p)) - hd.taken

\* poll_read with a buffer of `size` bytes at source offset p, when the source
\* hands over k bytes: the handle, the source offset, the bytes delivered and
\* whether the read failed.  Stored passes the bytes on.  A decoder takes the
\* bytes up to the terminator of its stream and fails when the bounded
\* sub-reader ends before the terminator.
PollRead(hd, p, size, k) ==
    LET chunk == Slice(src, p, k)
        ends == {j \in 1..Len(chunk) : chunk[j] = EndOfStream[1]}
        stop == IF ends = {} THEN 0 ELSE CHOOSE j \in ends : \A j2 \in ends : j <= j2
        used == IF hd.reader = "Stored" \/ stop = 0 THEN Len(chunk) ELSE stop
        out == IF hd.reader = "Stored" \/ stop = 0 THEN chunk ELSE SubSeq(chunk, 1, stop - 1)
        got == IF hd.done THEN <<>> ELSE out
        eaten == IF hd.done THEN 0 ELSE used
        failed == hd.reader # "Stored" /\ ~hd.done /\ k = 0
    IN  [h |-> [hd EXCEPT !.bytes_read = @ + Len(got),
                          !.taken = @ + eaten,
                          !.done = @ \/ (hd.reader # "Stored" /\ stop # 0),
                          !.data = @ \o got],
         pos |-> p + eaten, n |-> Len(got), failed |-> failed]

\* the buffer of consume(), line 129
ConsumeBuffer == 8192

\* consume, lines 132-140: read until a read returns nothing or fails
RECURSIVE Drain(_, _)
Drain(hd, p) ==
    LET r == PollRead(hd, p, ConsumeBuffer, Min(ConsumeBuffer, TakeLeft(hd, p)))
    IN  IF r.failed \/ r.n = 0 THEN r ELSE Drain(r.h, r.pos)

\* Consumed, without the check of is_eof() after the loop.
ConsumedUnchecked(failed, eof) == IF failed THEN "ReadFailed" ELSE "Ok"

\* consume, lines 138-147: the value returned
Consumed(failed, eof) == IF failed \/ ~eof THEN "ReadFailed" ELSE "Ok"

\* AsyncReadExt::read on the handle with a buffer of `size` bytes
Read ==
    /\ mode = "read"
    /\ h.alive
    /\ \E size \in 1..(MaxShort + 1) :
        \E k \in ReadSizes(size, TakeLeft(h, pos)) :
            LET r == PollRead(h, pos, size, k)
            IN  /\ h' = r.h
                /\ pos' = r.pos
                /\ rop' = [rop EXCEPT !.kind = "read",
                                      !.res = IF r.failed THEN "Err" ELSE "Ok",
                                      !.val = <<>>, !.from = pos, !.eof = IsEof(h),
                                      !.n = r.n, !.alt = FALSE]
    /\ UNCHANGED <<mode, src, arch, wvars>>

\* consume
Consume ==
    /\ mode = "read"
    /\ h.alive
    /\ LET r == Drain(h, pos)
       IN  /\ h' = r.h
           /\ pos' = r.pos
           /\ rop' = [rop EXCEPT !.kind = "consume",
                                 !.res = Consumed(r.failed, IsEof(r.h)),
                                 !.val = r.failed, !.from = pos, !.eof = IsEof(h),
                                 !.n = r.h.bytes_read - h.bytes_read,
                                 !.alt = rop.alt /\ rop.kind = "next_entry"]
    /\ UNCHANGED <<mode, src, arch, wvars>>

---------------------------------------------------------------------------
(* The sources the reader is run on: archives assembled from the entries   *)
(* below, and whatever the writer side left in its sink.                   *)

\* a Stored entry whose header agrees with its payload
Plain ==
    [flags |-> [encrypted |-> FALSE, data_descriptor |-> FALSE], compression |-> 0,
     mod_time |-> 12 * 2048 + 30 * 32 + 5, mod_date |-> 41 * 512 + 6 * 32 + 15,
     csize |-> 2, usize |-> 2, name |-> <<97>>, extra |-> <<>>, data |-> <<1, 2>>]

EntrySet ==
    {Plain,
     \* a second well-formed entry, with an extra field
     [Plain EXCEPT !.name = <<98>>, !.extra = <<5, 6>>, !.data = <<3>>, !.csize = 1, !.usize = 1],
     \* the declared uncompressed size is below the compressed size
     [Plain EXCEPT !.usize = 1],
     \* the payload is cut short
     [Plain EXCEPT !.data = <<1>>],
     [Plain EXCEPT !.flags = [encrypted |-> TRUE, data_descriptor |-> FALSE]],
     [Plain EXCEPT !.flags = [encrypted |-> FALSE, data_descriptor |-> TRUE]],
     [Plain EXCEPT !.compression = 99],
     \* compressed entries: one byte and the terminator
     [Plain EXCEPT !.compression = 8, !.data = <<1>> \o EndOfStream, !.usize = 1],
     [Plain EXCEPT !.compression = 12, !.data = <<1>> \o EndOfStream, !.usize = 1],
     [Plain EXCEPT !.compression = 14, !.data = <<1>> \o EndOfStream, !.usize = 1],
     [Plain EXCEPT !.compression = 93, !.data = <<1>> \o EndOfStream, !.usize = 1],
     [Plain EXCEPT !.compression = 95, !.data = <<1>> \o EndOfStream, !.usize = 1],
     \* a name that is not UTF-8
     [Plain EXCEPT !.name = <<255>>],
     \* a date with month 0
     [Plain EXCEPT !.mod_date = 1]}

\* what follows the last entry: the central directory, something else, nothing
Tails == {CDFHD, <<80, 75, 9, 9>>, <<>>}

EntryBytes(e) ==
    LFHD
    \o LfhToSlice([version |-> 0, flags |-> e.flags, compression |-> e.compression,
                   mod_time |-> e.mod_time, mod_date |-> e.mod_date,
                   crc |-> Crc32(e.data),
                   compressed_size |-> LE32(e.csize),
                   uncompressed_size |-> LE32(e.usize),
                   file_name_length |-> Len(e.name),
                   extra_field_length |-> Len(e.extra)])
    \o e.name \o e.extra \o e.data

RECURSIVE EntriesBytes(_)
EntriesBytes(es) ==
    IF es = <<>> THEN <<>> ELSE EntryBytes(Head(es)) \o EntriesBytes(Tail(es))

Archives ==
    {[kind |-> "assembled", entries |-> es, tail |-> t] :
        es \in UNION {[1..n -> EntrySet] : n \in 0..MaxArchive}, t \in Tails}

NoArchive == [kind |-> "none", entries |-> <<>>, tail |-> <<>>]

\* The parent writer goes on to write the central directory, which starts
\* with its marker, and the bytes written become a reader's source.
Handoff ==
    /\ mode = "write" /\ ~broken
    /\ \A i \in 1..MaxEntries : ws[i] # "Open"
    /\ mode' = "read"
    /\ src' = sink \o CDFHD
    /\ arch' = [kind |-> "written", entries |-> <<>>, tail |-> CDFHD]
    /\ UNCHANGED <<pos, h, rop, wvars>>

---------------------------------------------------------------------------

Init ==
    /\ sink = <<>>
    /\ cd_entries = <<>>
    /\ ws = [i \in 1..MaxEntries |-> "Unborn"]
    /\ w = NoWriter
    /\ wop = NoOp
    /\ broken = FALSE
    /\ pos = 0
    /\ h = NoHandle
    /\ rop = NoRead
    /\ \/ mode = "write" /\ src = <<>> /\ arch = NoArchive
       \/ /\ mode = "read"
          /\ arch \in Archives
          /\ src = EntriesBytes(arch.entries) \o arch.tail

Next ==
    \/ FromRaw
    \/ PollWriteOk
    \/ PollWriteNot
    \/ PollFlush
    \/ Close
    \/ DropOpen
    \/ Handoff
    \/ NextEntry
    \/ Read
    \/ Consume

Spec == Init /\ [][Next]_vars

\* The writer side alone, with callers that also pass extra data of 65536
\* bytes.
InitLong == Init /\ mode = "write"

NextLong ==
    \/ FromRawLong
    \/ PollWriteOk
    \/ PollWriteNot
    \/ PollFlush
    \/ Close
    \/ DropOpen

SpecLong == InitLong /\ [][NextLong]_vars

---------------------------------------------------------------------------
(* Properties *)

\* the writer side closed its first entry, and nothing was opened after it
ClosedFirst == wop.kind = "close" /\ wop.res = "ok" /\ wop.id = 1

\* C1 as stated: an entry written and closed by the entry stream writer, read
\* back by the stream reader, gives its payload again, and the checksum
\* recorded for it is the CRC32 of the payload.
C1_RoundTrip ==
    (arch.kind = "written" /\ ClosedFirst) =>
        /\ cd_entries[1].header.crc = Crc32(w.accepted)
        /\ rop.kind = "next_entry" => rop.res = "Entry"
        /\ rop.kind = "consume" => rop.res = "Ok" /\ h.data = w.accepted

\* C1, amended: when close() succeeds, the checksum in the trailing descriptor
\* and in the directory record is the CRC32 of the bytes the writes accepted,
\* and the local header carries data_descriptor with zero sizes and checksum;
\* the stream reader therefore never hands the entry out: next_entry() on the
\* written archive returns FeatureNotSupported("file data descriptors") once
\* it has read the header (ReadFailed when the header read came back short).
C1_WrittenEntryRejected ==
    /\ (wop.kind = "close" /\ wop.res = "ok") =>
        LET r == cd_entries[Len(cd_entries)].header
            lfh == LfhFrom(Slice(sink, w.lfh_offset + 4, 26))
        IN  /\ r.crc = Crc32(w.accepted)
            /\ SubSeq(sink, Len(sink) - 15, Len(sink))
                 = DDD \o Crc32(w.accepted) \o r.compressed_size \o r.uncompressed_size
            /\ lfh.flags.data_descriptor
            /\ lfh.crc = LE32(0)
            /\ lfh.compressed_size = LE32(0)
            /\ lfh.uncompressed_size = LE32(0)
    /\ (arch.kind = "written" /\ ws[1] \in {"Closed", "Dropped"}
            /\ rop.kind = "next_entry" /\ rop.calls = 1) =>
        /\ ~h.alive
        /\ rop.res = IF pos = 30 THEN "FeatureNotSupported" ELSE "ReadFailed"
        /\ pos = 30 => rop.val = "file data descriptors"

\* C1: a closed entry with a payload was handed to the reader and rejected
C1_Witness ==
    /\ arch.kind = "written" /\ ClosedFirst
    /\ Len(w.accepted) = MaxPayload
    /\ w.options.compression = 8
    /\ rop.kind = "next_entry" /\ rop.res = "FeatureNotSupported"

\* an entry of an assembled archive is a well-formed Stored entry
WellFormed(e) ==
    /\ ~e.flags.encrypted /\ ~e.flags.data_descriptor
    /\ e.compression = 0
    /\ e.csize = e.usize /\ e.usize = Len(e.data)
    /\ Utf8(e.name)
    /\ ChronoValid(ZipDateToChrono(e.mod_date, e.mod_time))

\* the source holds well-formed Stored entries and the end-of-entries marker
WellFormedArchive ==
    /\ arch.kind = "assembled"
    /\ \A k \in 1..Len(arch.entries) : WellFormed(arch.entries[k])
    /\ arch.tail = CDFHD

\* C2 as stated: on N well-formed Stored entries and the end marker,
\* alternating next_entry() and consume() returns entry k at the k-th call,
\* every consume() succeeds, call N + 1 returns "no entry", nothing fails.
C2_Sequencing ==
    (WellFormedArchive /\ rop.alt) =>
        /\ (rop.kind = "next_entry" /\ rop.calls <= Len(arch.entries)) =>
              /\ rop.res = "Entry"
              /\ h.file_name = arch.entries[rop.calls].name
              /\ h.start = Len(EntriesBytes(SubSeq(arch.entries, 1, rop.calls)))
                             - Len(arch.entries[rop.calls].data)
        /\ (rop.kind = "next_entry" /\ rop.calls = Len(arch.entries) + 1) =>
              rop.res = "None"
        /\ rop.kind = "consume" => rop.res = "Ok"

\* the source holds, where the last next_entry() started, a local header
\* marker and a whole 26-byte header: that header
HeaderThere == Len(src) >= rop.from + 30 /\ Slice(src, rop.from, 4) = LFHD
HeaderRead == LfhFrom(Slice(src, rop.from + 4, 26))

\* C3 as stated: next_entry() on a header with encrypted or data_descriptor
\* set returns an unsupported-feature error and no handle, and has consumed
\* nothing beyond the marker and the 26-byte header.
C3_FlaggedRejected ==
    (rop.kind = "next_entry" /\ HeaderThere
        /\ (HeaderRead.flags.encrypted \/ HeaderRead.flags.data_descriptor)) =>
        /\ rop.res = "FeatureNotSupported"
        /\ ~h.alive
        /\ pos <= rop.from + 30

\* the name and the extra field the header declares are in the source, and
\* the name, the date and the time are valid
FieldsThere ==
    /\ Len(src) >= rop.from + 30 + HeaderRead.file_name_length
                     + HeaderRead.extra_field_length
    /\ Utf8(Slice(src, rop.from + 30, HeaderRead.file_name_length))
    /\ ChronoValid(ZipDateToChrono(HeaderRead.mod_date, HeaderRead.mod_time))

\* C4 as stated: next_entry() picks the decoder by the method code, 0 Stored,
\* 8 Deflate, 12 Bzip2, 14 LZMA, 93 Zstd, 95 Xz, and for any other code
\* returns an unsupported-compression error carrying the code, and no handle.
C4_MethodDispatch ==
    (rop.kind = "next_entry" /\ HeaderThere /\ FieldsThere
        /\ ~HeaderRead.flags.encrypted /\ ~HeaderRead.flags.data_descriptor) =>
        LET code == HeaderRead.compression
        IN  IF code \in {0, 8, 12, 14, 93, 95}
            THEN /\ rop.res = "Entry"
                 /\ h.reader = (CASE code = 0 -> "Stored" [] code = 8 -> "Deflate"
                                  [] code = 12 -> "Bz" [] code = 14 -> "Lzma"
                                  [] code = 93 -> "Zstd" [] code = 95 -> "Xz")
            ELSE /\ rop.res = "UnsupportedCompressionError"
                 /\ rop.val = code
                 /\ ~h.alive

\* C5: the four bytes next_entry() reads first decide its outcome: the central
\* directory marker gives "no entry", the local header marker leads on to the
\* header, any other value gives an error that carries the value read.
C5_MarkerDecides ==
    (rop.kind = "next_entry" /\ Len(src) >= rop.from + 4) =>
        LET value == Slice(src, rop.from, 4)
        IN  /\ value = CDFHD => rop.res = "None" /\ pos = rop.from + 4 /\ ~h.alive
            /\ value = LFHD =>
                  /\ rop.res \notin {"None", "LocalFileHeaderError"}
                  /\ pos > rop.from + 4 \/ Len(src) = rop.from + 4
            /\ value \notin {LFHD, CDFHD} =>
                  /\ rop.res = "LocalFileHeaderError"
                  /\ rop.val = value
                  /\ pos = rop.from + 4
                  /\ ~h.alive

\* C5: next_entry() met a marker that is neither of the two
C5_Witness ==
    /\ rop.kind = "next_entry" /\ rop.res = "LocalFileHeaderError"
    /\ rop.val = <<80, 75, 9, 9>>

\* C6 as stated: if is_eof() holds when consume() is called, consume()
\* returns success.
C6_EofThenOk == (rop.kind = "consume" /\ rop.eof) => rop.res = "Ok"

\* C6, amended: if is_eof() holds when consume() is called, consume() returns
\* success exactly when draining the bounded sub-stream delivers no further
\* byte and no read fails; otherwise it returns ReadFailed.
C6_EofThenOkIfDrained ==
    (rop.kind = "consume" /\ rop.eof) =>
        /\ rop.res = "Ok" <=> (rop.n = 0 /\ ~rop.val)
        /\ rop.res \in {"Ok", "ReadFailed"}

\* C6: consume() was called at is_eof() after the caller read the payload
\* itself, and succeeded
C6_Witness ==
    /\ rop.kind = "consume" /\ rop.eof /\ rop.res = "Ok"
    /\ h.bytes_read > 0

\* C7: consume() returns success only if the bytes delivered when the
\* zero-length read is seen are as many as the declared uncompressed size; on
\* a source that ends before that it returns an error.
C7_OkOnlyAtDeclaredSize ==
    rop.kind = "consume" =>
        /\ rop.res = "Ok" <=> (h.uncompressed_size = LE32(h.bytes_read) /\ ~rop.val)
        /\ rop.res \in {"Ok", "ReadFailed"}
        /\ (pos = Len(src) /\ U32Min(h.uncompressed_size, h.bytes_read + 1) > h.bytes_read)
              => rop.res = "ReadFailed"

\* C7: consume() failed on a Stored entry whose source ended early
C7_Witness ==
    /\ rop.kind = "consume" /\ rop.res = "ReadFailed"
    /\ h.reader = "Stored" /\ pos = Len(src)
    /\ h.uncompressed_size = LE32(2) /\ h.bytes_read = 1

\* C8: an entry writer is Open, then Closed, and Closed is final: a write, a
\* flush or a close acts on a writer only while it is Open, close() takes it
\* from Open to Closed, and once Closed it stays Closed and no step of it
\* touches the sink or the record list.
C8_TwoStates ==
    [][/\ \A i \in 1..MaxEntries :
            /\ ws[i] = "Closed" => ws'[i] = "Closed"
            /\ (ws'[i] = "Closed" /\ ws[i] # "Closed") =>
                  (ws[i] = "Open" /\ wop'.kind = "close" /\ wop'.id = i)
            /\ (wop' # wop /\ wop'.id = i /\ wop'.kind \in {"write", "flush", "close"}) =>
                  ws[i] = "Open"
            /\ (wop' # wop /\ wop'.id = i /\ wop'.kind = "close") => ws'[i] = "Closed"
       /\ (sink' # sink \/ cd_entries' # cd_entries) =>
            \/ wop'.kind = "open" /\ ws[wop'.id] = "Unborn"
            \/ wop'.kind \in {"write", "flush", "close"} /\ ws[wop'.id] = "Open"
      ]_vars

\* C8: the first writer is Closed while the second one is written to
C8_Witness ==
    /\ ws[1] = "Closed" /\ ws[2] = "Open"
    /\ wop.kind = "write" /\ wop.res = "ok" /\ wop.n > 0

\* C9 as stated: an entry writer discarded while Open never silently leaves
\* the sink with a placeholder header and payload that have no trailing
\* descriptor and no directory record.
C9_NoSilentDiscard ==
    ~ /\ wop.kind = "drop" /\ wop.res = "silent"
      /\ ws[wop.id] = "Dropped"
      /\ LfhFrom(Slice(sink, w.lfh_offset + 4, 26)).uncompressed_size = LE32(0)
      /\ LfhFrom(Slice(sink, w.lfh_offset + 4, 26)).flags.data_descriptor
      /\ w.accepted # <<>>
      /\ Slice(sink, w.data_offset, Len(sink)) = w.accepted
      /\ \A k \in 1..Len(cd_entries) :
            cd_entries[k].header.lh_offset # LE32(w.lfh_offset)

\* C10: the record list changes only when a close() succeeds, which appends
\* one record for the closed entry at the end and leaves the others as they
\* are; a close() that fails leaves the list as it is.
C10_AppendOnly ==
    [][/\ cd_entries' # cd_entries =>
            /\ \E i \in 1..MaxEntries : ws[i] = "Open" /\ ws'[i] = "Closed"
            /\ wop'.kind = "close" /\ wop'.res = "ok"
            /\ Len(cd_entries') = Len(cd_entries) + 1
            /\ SubSeq(cd_entries', 1, Len(cd_entries)) = cd_entries
            /\ cd_entries'[Len(cd_entries')].opts = w.options
            /\ cd_entries'[Len(cd_entries')].header.lh_offset = LE32(w.lfh_offset)
       /\ \A i \in 1..MaxEntries :
            (ws[i] = "Open" /\ ws'[i] = "Closed") =>
                Len(cd_entries') = Len(cd_entries) + (IF wop'.res = "ok" THEN 1 ELSE 0)
      ]_vars

\* C10: every entry writer of the run was closed and the records are in
\* close order
C10_Witness ==
    /\ Len(cd_entries) = MaxEntries
    /\ cd_entries[1].header.lh_offset = LE32(0)
    /\ cd_entries[2].header.lh_offset # LE32(0)

\* calendar timestamps with an even and with an odd second
Stamps ==
    {[years |-> 2021, months |-> 6, days |-> 15, hours |-> 12, mins |-> 30, secs |-> 10],
     [years |-> 2021, months |-> 6, days |-> 15, hours |-> 12, mins |-> 30, secs |-> 11]}

\* C11 as stated: the timestamp of an entry handle is the calendar timestamp
\* its header's packed date and time stand for: same year, month, day, hour
\* and minute, and the even second at or below the second.
C11_DecodeInverts ==
    (arch.kind = "assembled" /\ rop.kind = "next_entry" /\ rop.calls = 1
        /\ rop.res = "Entry") =>
        \A t \in Stamps :
            ChronoToZipTime(t) = <<arch.entries[1].mod_time, arch.entries[1].mod_date>>
                => h.last_modified = [t EXCEPT !.secs = 2 * (@ \div 2)]

\* C12: the uncompressed size close() records, in the trailing descriptor and
\* in the directory record, is the number of payload bytes the writes of the
\* entry accepted, whatever the number of write calls that delivered them.
C12_SizeIsTotal ==
    (wop.kind = "close" /\ wop.res = "ok") =>
        /\ cd_entries[Len(cd_entries)].header.uncompressed_size = LE32(Len(w.accepted))
        /\ SubSeq(sink, Len(sink) - 3, Len(sink)) = LE32(Len(w.accepted))

\* C12: an entry was closed whose payload was accepted in more than one write
C12_Witness ==
    /\ wop.kind = "close" /\ wop.res = "ok"
    /\ w.chunks > 1 /\ Len(w.accepted) = MaxPayload
    /\ cd_entries[Len(cd_entries)].header.uncompressed_size = LE32(MaxPayload)

\* C13: after any writes, accepted in whole or in part, pending or failed, the
\* checksum close() finalizes is the CRC32 of the bytes the writes accepted,
\* in order, each once, and of no other byte; a close() that succeeds records
\* it in the trailing descriptor and in the directory record.
C13_ChecksumOfAccepted ==
    /\ w.id # 0 => HasherFinalize(w.hasher) = Crc32(w.accepted)
    /\ (wop.kind = "close" /\ wop.res = "ok") =>
        /\ cd_entries[Len(cd_entries)].header.crc = Crc32(w.accepted)
        /\ SubSeq(sink, Len(sink) - 11, Len(sink) - 8) = Crc32(w.accepted)

\* C13: a write accepted only a part of its buffer, and the hasher holds the
\* checksum of the bytes accepted so far
C13_Witness ==
    /\ wop.kind = "write" /\ wop.res = "ok"
    /\ 0 < wop.n /\ wop.n < wop.len
    /\ HasherFinalize(w.hasher) = Crc32(SubSeq(Payload, 1, Len(w.accepted)))

\* C14: opening an entry appends to the sink the local header marker, a
\* 26-byte header with zero sizes, zero checksum and data_descriptor set, the
\* filename and the extra bytes, and no payload byte; the header offset it
\* records is the sink's offset before the marker and the data offset the one
\* after the extra bytes, 30 + filename bytes + extra bytes further on.
C14_HeaderFirst ==
    [][\A i \in 1..MaxEntries :
          (ws[i] = "Unborn" /\ ws'[i] = "Open") =>
              LET bytes == Slice(sink', Len(sink) + 4, 26)
                  lfh == LfhFrom(bytes)
              IN  /\ w'.id = i
                  /\ w'.lfh_offset = Len(sink)
                  /\ w'.data_offset = Len(sink')
                  /\ Len(bytes) = 26
                  /\ sink' = sink \o LFHD \o bytes \o w'.options.filename \o w'.options.extra
                  /\ lfh.compressed_size = LE32(0)
                  /\ lfh.uncompressed_size = LE32(0)
                  /\ lfh.crc = LE32(0)
                  /\ lfh.flags.data_descriptor
                  /\ w'.accepted = <<>>
                  /\ w'.data_offset - w'.lfh_offset
                        = 4 + 26 + Len(w'.options.filename) + Len(w'.options.extra)
      ]_vars

\* C14: a second entry with a filename and an extra field was opened behind a
\* closed one
C14_Witness ==
    /\ wop.kind = "open" /\ wop.res = "ok" /\ wop.id = 2
    /\ ws[1] = "Closed" /\ w.lfh_offset > 0
    /\ w.options.extra # <<>>
    /\ Len(sink) = w.data_offset

\* C15: when close() succeeds the encoder was finished first, so its
\* trailing bytes lie before the descriptor; the compressed size is the number
\* of bytes in the sink between the end of the local header and the start of
\* the descriptor; the descriptor is the last thing in the sink, as marker,
\* checksum, compressed size, uncompressed size; and the directory record
\* carries the same three values.
C15_CloseLayout ==
    (wop.kind = "close" /\ wop.res = "ok") =>
        LET r == cd_entries[Len(cd_entries)].header
            body == Slice(sink, w.data_offset, (Len(sink) - 16) - w.data_offset)
        IN  /\ Len(sink) >= w.data_offset + 16
            /\ body = (IF w.options.compression = 0 THEN w.accepted
                       ELSE w.accepted \o EndOfStream)
            /\ r.compressed_size = LE32(Len(body))
            /\ r.crc = HasherFinalize(w.hasher)
            /\ r.uncompressed_size = LE32(w.offset)
            /\ SubSeq(sink, Len(sink) - 15, Len(sink))
                 = DDD \o r.crc \o r.compressed_size \o r.uncompressed_size

\* C15: a compressed entry was closed, and its compressed size counts the
\* payload and the trailing byte of the encoder
C15_Witness ==
    /\ wop.kind = "close" /\ wop.res = "ok"
    /\ w.options.compression = 8
    /\ Len(w.accepted) = MaxPayload
    /\ cd_entries[Len(cd_entries)].header.compressed_size = LE32(MaxPayload + 1)
    /\ cd_entries[Len(cd_entries)].header.uncompressed_size = LE32(MaxPayload)

\* the number four little-endian bytes stand for (below 2^31)
Value32(b) == b[1] + 256 * b[2] + 65536 * b[3] + 16777216 * b[4]

\* every entry opened so far was opened without an error and not discarded
OneAfterAnother == \A i \in 1..MaxEntries : ws[i] \in {"Unborn", "Open", "Closed"}

\* C16: every record's local header offset is a position of the sink where a
\* local header marker stands, followed by the header, the filename and the
\* extra bytes of the record's entry; and when the entries were opened,
\* written and closed one after another, the first record's offset is where
\* the first entry began and each later one is the offset before plus 30 +
\* filename bytes + extra bytes + compressed size + 16.
C16_OffsetsLocate ==
    /\ \A k \in 1..Len(cd_entries) :
          LET r == cd_entries[k]
              at == Value32(r.header.lh_offset)
              lfh == LfhFrom(Slice(sink, at + 4, 26))
          IN  /\ Slice(sink, at, 4) = LFHD
              /\ Len(sink) >= at + 30
              /\ lfh.compression = r.header.compression
              /\ lfh.file_name_length = r.header.file_name_length
              /\ lfh.extra_field_length = r.header.extra_field_length
              /\ Slice(sink, at + 30, Len(r.opts.filename)) = r.opts.filename
              /\ Slice(sink, at + 30 + Len(r.opts.filename), Len(r.opts.extra)) = r.opts.extra
    /\ OneAfterAnother =>
          /\ Len(cd_entries) > 0 => Value32(cd_entries[1].header.lh_offset) = 0
          /\ \A k \in 1..(Len(cd_entries) - 1) :
                Value32(cd_entries[k + 1].header.lh_offset)
                  = Value32(cd_entries[k].header.lh_offset) + 30
                    + Len(cd_entries[k].opts.filename) + Len(cd_entries[k].opts.extra)
                    + Value32(cd_entries[k].header.compressed_size) + 16

\* C16: two entries were closed one after another, the first one compressed
\* and with a filename, an extra field and a payload
C16_Witness ==
    /\ OneAfterAnother
    /\ Len(cd_entries) = 2
    /\ cd_entries[1].opts.extra # <<>>
    /\ cd_entries[1].header.compressed_size = LE32(MaxPayload + 1)
    /\ Value32(cd_entries[2].header.lh_offset)
          = 30 + Len(cd_entries[1].opts.filename) + Len(cd_entries[1].opts.extra)
            + MaxPayload + 1 + 16

\* where the payload of the first entry of an assembled archive starts: behind
\* the marker, the header, the filename and the extra field
PayloadStart == 4 + 26 + Len(arch.entries[1].name) + Len(arch.entries[1].extra)

\* C17 as stated: whatever the method and the reads made through the handle
\* of an entry, the source is never advanced beyond the entry's payload start
\* plus its declared compressed size; and when a consume() of a Stored entry
\* succeeds, the source is exactly there, at the next marker.
C17_BoundedByDeclared ==
    (arch.kind = "assembled" /\ rop.calls = 1 /\ h.alive) =>
        /\ pos <= PayloadStart + arch.entries[1].csize
        /\ (h.reader = "Stored" /\ rop.kind = "consume" /\ rop.res = "Ok") =>
              pos = PayloadStart + arch.entries[1].csize

\* C18 as stated: when next_entry() returns an entry it has consumed the
\* marker, the header and as many filename and extra bytes as the header
\* declares, and the filename and the extra field of the entry are those
\* bytes of the source, however the source splits its reads.
C18_HeaderConsumed ==
    (rop.kind = "next_entry" /\ rop.res = "Entry") =>
        LET names == HeaderRead.file_name_length
            extras == HeaderRead.extra_field_length
        IN  /\ pos = rop.from + 4 + 26 + names + extras
            /\ h.start = pos
            /\ h.file_name = Slice(src, rop.from + 30, names)
            /\ Len(h.file_name) = names
            /\ h.extra.data = Slice(src, rop.from + 30 + names, extras)
            /\ Len(h.extra.data) = extras

\* next_entry() called at source offset p when every read hands over all the
\* bytes that are asked for and there: what it returns
Undivided(p) ==
    LET failed == [res |-> "ReadFailed", val |-> <<>>, name |-> <<>>, extra |-> <<>>]
        marked == Marker(Slice(src, p, 4))
        header == LfhFrom(Slice(src, p + 4, 26))
        flagged == Flags(header.flags)
        file_name == Slice(src, p + 30, header.file_name_length)
        extra == Slice(src, p + 30 + Len(file_name), header.extra_field_length)
    IN  IF Len(src) - p < 4 THEN failed
        ELSE IF marked.res # "header"
             THEN [res |-> marked.res, val |-> marked.val, name |-> <<>>, extra |-> <<>>]
        ELSE IF Len(src) - (p + 4) < 26 THEN failed
        ELSE IF flagged.res # "ok"
             THEN [res |-> flagged.res, val |-> flagged.val, name |-> <<>>, extra |-> <<>>]
        ELSE IF ~Utf8(file_name) THEN failed
        ELSE IF Decoder(header.compression) = "unsupported"
             THEN [res |-> "UnsupportedCompressionError", val |-> header.compression,
                   name |-> <<>>, extra |-> <<>>]
        ELSE IF ~ChronoValid(ZipDateToChrono(header.mod_date, header.mod_time))
             THEN [res |-> "panic", val |-> <<>>, name |-> <<>>, extra |-> <<>>]
        ELSE [res |-> "Entry", val |-> <<>>, name |-> file_name, extra |-> extra]

\* C19 as stated: what next_entry() returns depends on the bytes of the source
\* only: however the source splits them over its reads, the call returns what
\* it returns when no read is split, the same entry, the same "no entry" or
\* the same error; a whole header delivered in two reads is not a ReadFailed.
C19_SplitIndependent ==
    rop.kind = "next_entry" =>
        /\ rop.res = Undivided(rop.from).res
        /\ rop.val = Undivided(rop.from).val
        /\ rop.res = "Entry" =>
              /\ h.file_name = Undivided(rop.from).name
              /\ h.extra.data = Undivided(rop.from).extra

\* C20 as stated: the filename length and the extra length in the local
\* header of every entry opened, and in its directory record, are the numbers
\* of filename bytes and extra bytes written behind the header, also for a
\* filename or extra data of 65536 bytes or more.
C20_LengthsMatch ==
    /\ (w.id # 0 /\ ws[w.id] \in {"Open", "Closed", "Dropped"}) =>
          LET lfh == LfhFrom(Slice(sink, w.lfh_offset + 4, 26))
          IN  /\ lfh.file_name_length = Len(w.options.filename)
              /\ lfh.extra_field_length = Len(w.options.extra)
              /\ lfh.file_name_length + lfh.extra_field_length
                    = w.data_offset - (w.lfh_offset + 30)
    /\ \A k \in 1..Len(cd_entries) :
          /\ cd_entries[k].header.file_name_length = Len(cd_entries[k].opts.filename)
          /\ cd_entries[k].header.extra_field_length = Len(cd_entries[k].opts.extra)

====
